---------------------------- MODULE Spec2Model ----------------------------
(***************************************************************************)
(* Voiceprint store of the speaker service (speaker_service/speaker_model  *)
(* .py, class SpeakerModel): the in-memory map `voiceprints`, the          *)
(* artifacts <speaker_id>.json of the voiceprint directory, and the calls  *)
(* register_speaker, register_speaker_batch, recognize_speaker,            *)
(* delete_speaker, list_speakers, diarization and the load done by the     *)
(* constructor; further down the aggregation of a batch in float           *)
(* arithmetic and the temporary files of the register endpoint.            *)
(*                                                                         *)
(* The handlers of app.py are async def and call these methods without an  *)
(* await in between, so one thread runs one call at a time: pc is the      *)
(* position of that thread.                                                *)
(*                                                                         *)
(* _save_voiceprint is modelled in two steps, because open(file, 'w')      *)
(* creates/truncates the artifact before json.dump fills it: between the   *)
(* two the directory holds an artifact that is not valid JSON.  Faults of  *)
(* the environment (open, write or unlink raising, the process dying) are  *)
(* nondeterministic choices.                                               *)
(***************************************************************************)
EXTENDS Naturals, Integers, Sequences, FiniteSets, TLC

VARIABLES
    voiceprints,   \* SpeakerModel.voiceprints: speaker_id -> record
    keys,          \* the keys of that dict in its iteration (insertion) order
    files,         \* voiceprint_dir: file stem -> content of <stem>.json
    now,           \* int(time.time() * 1000), the clock generate_speaker_id reads
    pc,            \* where the one thread that runs the handlers is: "idle";
                   \* "writing": inside _save_voiceprint, file opened;
                   \* "recognizing": inside recognize_speaker, audio embedded;
                   \* "returned": a call has just returned or raised
    cur,           \* the call in progress while pc is "writing" or "recognizing"
    last,          \* while pc = "returned": what the call returned or raised
    deleted,       \* the speaker_id for which the last completed call was a
                   \* delete_speaker that returned True (0: there is none)
    held,          \* the list a caller of list_speakers got and keeps
    tmpdir,        \* the temporary files that exist (tempfile directory)
    request        \* the register request the HTTP handler is working on

vars == <<voiceprints, keys, files, now, pc, cur, last, deleted, held, tmpdir,
          request>>

----------------------------------------------------------------------------
(* Bounds *)

MaxTime == 1       \* the clock takes the values 0..MaxTime
MaxSamples == 2    \* longest list of audio samples of one registration
MaxSpeakers == 2   \* most speaker ids the store holds (map and directory)

Names == {"alice", "bob"}
Times == 0..MaxTime

\* An audio file is described by what extract_embedding does with it: the
\* vector the network yields for it, or <<>> when the extraction raises.
Bad == <<>>
Good == <<1, 0, 0>>
Samples == {Bad, Good}

\* Voices of the recognition runs: two parallel vectors of different
\* length, and a third at 120 degrees of them.  No sum of them is zero.
Voices == {<<1, 1, 0>>, <<2, 2, 0>>, <<-1, 0, 1>>}
VoiceSamples == {Bad} \cup Voices

\* Content of an artifact that open(file, 'w') created or truncated and
\* json.dump did not complete: no prefix of a JSON object is valid JSON.
Partial == [truncated |-> TRUE]

\* no call has just returned; no registration is in progress
NoCall == [op |-> "none"]
NoCur == [op |-> "none"]

\* no caller keeps a list of speakers
NoList == [speakers |-> <<>>, shared |-> FALSE]

\* no register request is being handled
NoRequest == [stage |-> "none"]

----------------------------------------------------------------------------
(* Pure helpers *)

\* content = f"{name}_{ts}"
Content(name, ts) == <<name, ts>>

NameIndex(name) == IF name = "alice" THEN 0 ELSE 1

\* hashlib.md5(content).hexdigest(): a digest that is a function of the
\* content alone; distinct contents of the bounded domain get distinct
\* digests (collision resistance).
Md5(content) == 1 + content[2] * Cardinality(Names) + NameIndex(content[1])

generate_speaker_id(name, ts) == Md5(Content(name, ts))

SpeakerIds == {generate_speaker_id(n, t) : n \in Names, t \in Times}

\* m with key k bound to v (dict assignment m[k] = v)
Put(m, k, v) == [x \in (DOMAIN m) \cup {k} |-> IF x = k THEN v ELSE m[x]]

\* m without key k (del m[k], Path.unlink)
Remove(m, k) == [x \in (DOMAIN m) \ {k} |-> m[x]]

\* the key order of a dict after d[k] = v: a new key goes last, a key that
\* is there keeps its place
KeysPut(ks, k) ==
    IF \E i \in DOMAIN ks : ks[i] = k THEN ks ELSE Append(ks, k)

\* the key order of a dict after del d[k]
KeysRemove(ks, k) == SelectSeq(ks, LAMBDA x : x # k)

EmptyMap == [x \in {} |-> 0]

----------------------------------------------------------------------------
(* numpy arithmetic, exact.  A vector is [dir, p, q]: the integer vector   *)
(* dir, whose components have no common divisor, times sqrt(p / q), with   *)
(* p / q in lowest terms.  A scalar is [sgn, a, b]: sgn * sqrt(a / b).     *)

Abs(x) == IF x < 0 THEN -x ELSE x

RECURSIVE Gcd(_, _)
Gcd(a, b) == IF b = 0 THEN a ELSE Gcd(b, a % b)

RECURSIVE GcdFrom(_, _)
GcdFrom(v, i) == IF i > Len(v) THEN 0 ELSE Gcd(Abs(v[i]), GcdFrom(v, i + 1))

\* np.dot of two integer vectors
RECURSIVE DotFrom(_, _, _)
DotFrom(a, b, i) ==
    IF i > Len(a) THEN 0 ELSE a[i] * b[i] + DotFrom(a, b, i + 1)

Dot(a, b) == DotFrom(a, b, 1)

\* the integer vector v times sqrt(a / b)
Scaled(v, a, b) ==
    LET g == GcdFrom(v, 1)
        n == g * g * a
        d == Gcd(n, b)
    IN  [dir |-> [i \in DOMAIN v |-> v[i] \div g], p |-> n \div d, q |-> b \div d]

\* the integer components of a vector with integer components
Ints(e) ==
    LET r == CHOOSE x \in 0..e.p : x * x = e.p
    IN  [i \in DOMAIN e.dir |-> e.dir[i] * r]

\* sum of a non-empty list of vectors with integer components
RECURSIVE SumInts(_)
SumInts(embs) ==
    IF Len(embs) = 1 THEN Ints(embs[1])
    ELSE LET t == SumInts(Tail(embs))
             h == Ints(Head(embs))
         IN  [i \in DOMAIN h |-> h[i] + t[i]]

\* np.mean(embeddings_array, axis=0)
Mean(embs) == Scaled(SumInts(embs), 1, Len(embs) * Len(embs))

\* np.linalg.norm(e), squared, as the fraction <<numerator, denominator>>
Norm2(e) ==
    LET n == Dot(e.dir, e.dir) * e.p
        d == Gcd(n, e.q)
    IN  <<n \div d, e.q \div d>>

\* e / np.linalg.norm(e)
Normalize(e) ==
    LET n2 == Norm2(e)
    IN  Scaled(e.dir, e.p * n2[2], e.q * n2[1])

\* The float (x + 1) / 2 for the scalar x = sgn * sqrt(a / b), a / b in lowest
\* terms: the values calculate_similarity returns.
Similarity(sgn, a, b) == [sgn |-> sgn, a |-> a, b |-> b]

\* s >= t for two such floats (x -> sgn * x * x is increasing)
Geq(s, t) == s.sgn * s.a * t.b >= t.sgn * t.a * s.b

\* calculate_similarity(embedding1, embedding2): both are normalized, the
\* dot product is taken and moved from -1..1 to 0..1
calculate_similarity(embedding1, embedding2) ==
    LET emb1_norm == Normalize(embedding1)
        emb2_norm == Normalize(embedding2)
        d == Dot(emb1_norm.dir, emb2_norm.dir)
        n == d * d * emb1_norm.p * emb2_norm.p
        m == emb1_norm.q * emb2_norm.q
        g == Gcd(n, m)
    IN  Similarity(IF d > 0 THEN 1 ELSE IF d < 0 THEN -1 ELSE 0,
                   n \div g, m \div g)

\* settings.SIMILARITY_THRESHOLD = 0.75 = (sqrt(1 / 4) + 1) / 2
SIMILARITY_THRESHOLD == Similarity(1, 1, 4)

\* settings.TOP_K_MATCHES, the default top_k
TOP_K_MATCHES == 5

\* the values of top_k a caller passes
TopKs == {0, 1, TOP_K_MATCHES}

\* Matches with a fault: is_match needs a similarity above the threshold
MatchesStrict(query_embedding, ks, vps) ==
    [i \in 1..Len(ks) |->
        LET similarity ==
                calculate_similarity(query_embedding, vps[ks[i]].embedding)
        IN  [speaker_id |-> ks[i], name |-> vps[ks[i]].name,
             similarity |-> similarity, confidence |-> similarity,
             is_match |-> ~Geq(SIMILARITY_THRESHOLD, similarity)]]

\* the matches list of recognize_speaker before it is sorted: one entry per
\* item of the dict, in the order of the dict
Matches(query_embedding, ks, vps) ==
    [i \in 1..Len(ks) |->
        LET similarity ==
                calculate_similarity(query_embedding, vps[ks[i]].embedding)
        IN  [speaker_id |-> ks[i], name |-> vps[ks[i]].name,
             similarity |-> similarity, confidence |-> similarity,
             is_match |-> Geq(similarity, SIMILARITY_THRESHOLD)]]

\* list.sort(key=similarity, reverse=True): descending and stable, entries
\* of equal similarity keep the order they had
InsertDesc(sorted, m) ==
    LET k == Cardinality({i \in DOMAIN sorted :
                             Geq(sorted[i].similarity, m.similarity)})
    IN  SubSeq(sorted, 1, k) \o <<m>> \o SubSeq(sorted, k + 1, Len(sorted))

\* SortDesc with a fault: the list is left as it is
Unsorted(ms) == ms

RECURSIVE SortDesc(_)
SortDesc(ms) ==
    IF ms = <<>> THEN <<>>
    ELSE InsertDesc(SortDesc(SubSeq(ms, 1, Len(ms) - 1)), ms[Len(ms)])

\* the slice ms[:k] of Python
Slice(ms, k) ==
    LET stop == IF k >= 0 THEN (IF k < Len(ms) THEN k ELSE Len(ms))
                ELSE (IF Len(ms) + k > 0 THEN Len(ms) + k ELSE 0)
    IN  SubSeq(ms, 1, stop)

\* extract_embedding(audio_path) returns an embedding or raises ValueError
ExtractOk(sample) == sample # Bad

extract_embedding(sample) == Scaled(sample, 1, 1)

\* BatchEmbeddings with a fault: the first sample that fails ends the loop
RECURSIVE BatchEmbeddingsBreak(_)
BatchEmbeddingsBreak(samples) ==
    IF samples = <<>> THEN <<>>
    ELSE IF ExtractOk(Head(samples))
         THEN <<extract_embedding(Head(samples))>>
                  \o BatchEmbeddingsBreak(Tail(samples))
         ELSE <<>>

\* the embeddings list of register_speaker_batch: one entry per sample whose
\* extraction succeeded, failures skipped
RECURSIVE BatchEmbeddings(_)
BatchEmbeddings(samples) ==
    IF samples = <<>> THEN <<>>
    ELSE IF ExtractOk(Head(samples))
         THEN <<extract_embedding(Head(samples))>> \o BatchEmbeddings(Tail(samples))
         ELSE BatchEmbeddings(Tail(samples))

\* how many samples of a list extract_embedding accepts
CountExtracted(samples) ==
    Cardinality({i \in DOMAIN samples : ExtractOk(samples[i])})

\* the voiceprint dict built by register_speaker
SingleVoiceprint(id, name, emb) ==
    [speaker_id |-> id, name |-> name, embedding |-> emb,
     embeddings_all |-> <<emb>>, sample_count |-> 1]

\* BatchVoiceprint with a fault: sample_count is left at 1
BatchVoiceprintCountOne(id, name, embs) ==
    [speaker_id |-> id, name |-> name, embedding |-> Normalize(Mean(embs)),
     embeddings_all |-> embs, sample_count |-> 1]

\* the voiceprint dict built by register_speaker_batch
BatchVoiceprint(id, name, embs) ==
    [speaker_id |-> id, name |-> name, embedding |-> Normalize(Mean(embs)),
     embeddings_all |-> embs, sample_count |-> Len(embs)]

\* open(voiceprint_file, 'w'): the artifact exists and is empty
OpenForWrite(fs, id) == Put(fs, id, Partial)

\* json.dump(voiceprint, f) ran to the end and the file was closed
DumpAll(fs, id, voiceprint) == Put(fs, id, voiceprint)

\* the orders in which voiceprint_dir.glob("*.json") may yield the files
GlobOrders(fs) ==
    {o \in [1..Cardinality(DOMAIN fs) -> DOMAIN fs] :
        \A i, j \in DOMAIN o : i # j => o[i] # o[j]}

\* json.load(f) raises on the content, or voiceprint['speaker_id'] does
Unreadable(content) == "speaker_id" \notin DOMAIN content

\* _load_voiceprints: the loop is inside the try, so the first artifact that
\* raises ends the loop and the records read so far are returned
RECURSIVE LoadLoop(_, _, _)
LoadLoop(order, fs, acc) ==
    IF order = <<>> THEN acc
    ELSE LET content == fs[Head(order)]
         IN  IF Unreadable(content) THEN acc
             ELSE LoadLoop(Tail(order), fs, Put(acc, content.speaker_id, content))

load_voiceprints(order, fs) == LoadLoop(order, fs, EmptyMap)

\* the key order of the dict that _load_voiceprints fills
RECURSIVE LoadKeys(_, _, _)
LoadKeys(order, fs, acc) ==
    IF order = <<>> THEN acc
    ELSE LET content == fs[Head(order)]
         IN  IF Unreadable(content) THEN acc
             ELSE LoadKeys(Tail(order), fs, KeysPut(acc, content.speaker_id))

load_keys(order, fs) == LoadKeys(order, fs, <<>>)

----------------------------------------------------------------------------
(* State *)

Init ==
    /\ voiceprints = EmptyMap
    /\ keys = <<>>
    /\ files = EmptyMap
    /\ now = 0
    /\ pc = "idle"
    /\ cur = NoCur
    /\ last = NoCall
    /\ deleted = 0
    /\ held = NoList
    /\ tmpdir = {}
    /\ request = NoRequest

\* the store as a call finds it
Store == [voiceprints |-> voiceprints, files |-> files]

\* What a completed call hands to its caller.  ret is "ok" (a registration
\* result), "true"/"false" (delete_speaker) or "error" (an exception); id is
\* the speaker_id the caller passed or got back (0: none); fault is the step
\* that raised; total and nok count the samples of the call and those of
\* them that extract_embedding accepts; before is the store when the call
\* started; repeat says that the call is a delete_speaker of the id whose
\* delete_speaker just returned True.
Outcome(op, id, ret, fault, total, nok, before, repeat) ==
    [op |-> op, id |-> id, ret |-> ret, fault |-> fault, total |-> total,
     nok |-> nok, before |-> before, repeat |-> repeat]

\* What a completed recognize_speaker hands to its caller: the list of
\* matches (ret "ok") or an exception (ret "error"); audio is the sample it
\* was called with, before the store when the call started.
Recognized(ret, fault, audio, top_k, matches, before) ==
    [op |-> "recognize", ret |-> ret, fault |-> fault, audio |-> audio,
     top_k |-> top_k, matches |-> matches, before |-> before]

\* the store has room for the speaker id
Room(id) ==
    Cardinality((DOMAIN files) \cup (DOMAIN voiceprints) \cup {id}) <= MaxSpeakers

\* time passes between two calls
Tick ==
    /\ pc = "idle"
    /\ now < MaxTime
    /\ now' = now + 1
    /\ UNCHANGED <<voiceprints, files, pc, cur, last, deleted, keys,
                 held, tmpdir, request>>

\* the caller has the result of the call
Deliver ==
    /\ pc = "returned"
    /\ pc' = "idle"
    /\ last' = NoCall
    /\ deleted' = IF last.op = "delete" /\ last.ret = "true" THEN last.id ELSE 0
    /\ UNCHANGED <<voiceprints, files, now, cur, keys,
                 held, tmpdir, request>>

----------------------------------------------------------------------------
(* register_speaker(name, audio_path) *)

\* extract_embedding raises: the call raises ValueError
register_speaker_extract_fails(name, sample) ==
    /\ pc = "idle"
    /\ ~ExtractOk(sample)
    /\ pc' = "returned"
    /\ last' = Outcome("register", 0, "error", "extract", 1, 0, Store, FALSE)
    /\ UNCHANGED <<voiceprints, files, now, cur, deleted, keys,
                 held, tmpdir, request>>

\* the embedding is extracted and open(voiceprint_file, 'w') raises
register_speaker_open_fails(name, sample) ==
    /\ pc = "idle"
    /\ ExtractOk(sample)
    /\ pc' = "returned"
    /\ last' = Outcome("register", 0, "error", "open", 1, 1, Store, FALSE)
    /\ UNCHANGED <<voiceprints, files, now, cur, deleted, keys,
                 held, tmpdir, request>>

\* the embedding is extracted and _save_voiceprint has opened the artifact
register_speaker_open(name, sample) ==
    LET id == generate_speaker_id(name, now)
        voiceprint == SingleVoiceprint(id, name, extract_embedding(sample))
    IN  /\ pc = "idle"
        /\ ExtractOk(sample)
        /\ Room(id)
        /\ files' = OpenForWrite(files, id)
        /\ pc' = "writing"
        /\ cur' = [op |-> "register", id |-> id, voiceprint |-> voiceprint,
                   total |-> 1, nok |-> 1, before |-> Store]
        /\ UNCHANGED <<voiceprints, now, last, deleted, keys,
                 held, tmpdir, request>>

register_speaker(name, sample) ==
    \/ register_speaker_extract_fails(name, sample)
    \/ register_speaker_open_fails(name, sample)
    \/ register_speaker_open(name, sample)

----------------------------------------------------------------------------
(* register_speaker_batch(name, audio_paths) *)

\* no sample could be embedded: ValueError
register_speaker_batch_no_sample(name, samples) ==
    /\ pc = "idle"
    /\ BatchEmbeddings(samples) = <<>>
    /\ pc' = "returned"
    /\ last' = Outcome("register_batch", 0, "error", "nosample",
                       Len(samples), CountExtracted(samples), Store, FALSE)
    /\ UNCHANGED <<voiceprints, files, now, cur, deleted, keys,
                 held, tmpdir, request>>

\* some sample was embedded and open(voiceprint_file, 'w') raises
register_speaker_batch_open_fails(name, samples) ==
    /\ pc = "idle"
    /\ BatchEmbeddings(samples) # <<>>
    /\ pc' = "returned"
    /\ last' = Outcome("register_batch", 0, "error", "open",
                       Len(samples), CountExtracted(samples), Store, FALSE)
    /\ UNCHANGED <<voiceprints, files, now, cur, deleted, keys,
                 held, tmpdir, request>>

\* some sample was embedded and _save_voiceprint has opened the artifact
register_speaker_batch_open(name, samples) ==
    LET id == generate_speaker_id(name, now)
        embeddings == BatchEmbeddings(samples)
        voiceprint == BatchVoiceprint(id, name, embeddings)
    IN  /\ pc = "idle"
        /\ embeddings # <<>>
        /\ Room(id)
        /\ files' = OpenForWrite(files, id)
        /\ pc' = "writing"
        /\ cur' = [op |-> "register_batch", id |-> id, voiceprint |-> voiceprint,
                   total |-> Len(samples), nok |-> CountExtracted(samples),
                   before |-> Store]
        /\ UNCHANGED <<voiceprints, now, last, deleted, keys,
                 held, tmpdir, request>>

register_speaker_batch(name, samples) ==
    \/ register_speaker_batch_no_sample(name, samples)
    \/ register_speaker_batch_open_fails(name, samples)
    \/ register_speaker_batch_open(name, samples)

----------------------------------------------------------------------------
(* _save_voiceprint after the open, and the rest of the registration *)

\* json.dump completes, the record is added to the map, the call returns
save_voiceprint_done ==
    /\ pc = "writing"
    /\ files' = DumpAll(files, cur.id, cur.voiceprint)
    /\ voiceprints' = Put(voiceprints, cur.id, cur.voiceprint)
    /\ keys' = KeysPut(keys, cur.id)
    /\ last' = Outcome(cur.op, cur.id, "ok", "none", cur.total, cur.nok,
                       cur.before, FALSE)
    /\ pc' = "returned"
    /\ cur' = NoCur
    /\ UNCHANGED <<now, deleted,
                 held, tmpdir, request>>

\* save_voiceprint_raises with a fault: the record is put in the map before
\* it is saved
save_voiceprint_raises_map_first ==
    /\ pc = "writing"
    /\ voiceprints' = Put(voiceprints, cur.id, cur.voiceprint)
    /\ keys' = KeysPut(keys, cur.id)
    /\ last' = Outcome(cur.op, 0, "error", "write", cur.total, cur.nok,
                       cur.before, FALSE)
    /\ pc' = "returned"
    /\ cur' = NoCur
    /\ UNCHANGED <<files, now, deleted,
                 held, tmpdir, request>>

\* json.dump (or the close) raises: _save_voiceprint re-raises, the
\* registration raises ValueError; the opened artifact stays as it is
save_voiceprint_raises ==
    /\ pc = "writing"
    /\ last' = Outcome(cur.op, 0, "error", "write", cur.total, cur.nok,
                       cur.before, FALSE)
    /\ pc' = "returned"
    /\ cur' = NoCur
    /\ UNCHANGED <<voiceprints, files, now, deleted, keys,
                 held, tmpdir, request>>

----------------------------------------------------------------------------
(* delete_speaker(speaker_id) *)

\* delete_speaker_absent with a fault: the artifact is unlinked before the
\* map is looked at
delete_speaker_absent_unlinks(id) ==
    /\ pc = "idle"
    /\ id \notin DOMAIN voiceprints
    /\ files' = IF id \in DOMAIN files THEN Remove(files, id) ELSE files
    /\ pc' = "returned"
    /\ last' = Outcome("delete", id, "false", "none", 0, 0, Store, deleted = id)
    /\ UNCHANGED <<voiceprints, now, cur, deleted, keys,
                 held, tmpdir, request>>

\* speaker_id not in self.voiceprints: return False
delete_speaker_absent(id) ==
    /\ pc = "idle"
    /\ id \notin DOMAIN voiceprints
    /\ pc' = "returned"
    /\ last' = Outcome("delete", id, "false", "none", 0, 0, Store, deleted = id)
    /\ UNCHANGED <<voiceprints, files, now, cur, deleted, keys,
                 held, tmpdir, request>>

\* delete_speaker_unlink_fails with a fault: the entry is removed from the
\* map before the unlink raises
delete_speaker_unlink_fails_map_first(id) ==
    /\ pc = "idle"
    /\ id \in DOMAIN voiceprints
    /\ id \in DOMAIN files
    /\ voiceprints' = Remove(voiceprints, id)
    /\ keys' = KeysRemove(keys, id)
    /\ pc' = "returned"
    /\ last' = Outcome("delete", id, "false", "unlink", 0, 0, Store, deleted = id)
    /\ UNCHANGED <<files, now, cur, deleted,
                 held, tmpdir, request>>

\* the artifact exists and unlink raises: caught, return False
delete_speaker_unlink_fails(id) ==
    /\ pc = "idle"
    /\ id \in DOMAIN voiceprints
    /\ id \in DOMAIN files
    /\ pc' = "returned"
    /\ last' = Outcome("delete", id, "false", "unlink", 0, 0, Store, deleted = id)
    /\ UNCHANGED <<voiceprints, files, now, cur, deleted, keys,
                 held, tmpdir, request>>

\* delete_speaker_done with a fault: the entry stays in the map
delete_speaker_done_keeps_entry(id) ==
    /\ pc = "idle"
    /\ id \in DOMAIN voiceprints
    /\ files' = IF id \in DOMAIN files THEN Remove(files, id) ELSE files
    /\ pc' = "returned"
    /\ last' = Outcome("delete", id, "true", "none", 0, 0, Store, deleted = id)
    /\ UNCHANGED <<voiceprints, now, cur, deleted, keys,
                 held, tmpdir, request>>

\* delete_speaker_done with a fault: unlink without the exists() test; on a
\* missing artifact it raises and the call returns False
delete_speaker_done_unlink_unchecked(id) ==
    /\ pc = "idle"
    /\ id \in DOMAIN voiceprints
    /\ files' = IF id \in DOMAIN files THEN Remove(files, id) ELSE files
    /\ voiceprints' = IF id \in DOMAIN files THEN Remove(voiceprints, id)
                      ELSE voiceprints
    /\ keys' = IF id \in DOMAIN files THEN KeysRemove(keys, id) ELSE keys
    /\ pc' = "returned"
    /\ last' = Outcome("delete", id,
                       IF id \in DOMAIN files THEN "true" ELSE "false",
                       IF id \in DOMAIN files THEN "none" ELSE "unlink",
                       0, 0, Store, deleted = id)
    /\ UNCHANGED <<now, cur, deleted,
                 held, tmpdir, request>>

\* delete_speaker_done with a fault: the artifact is left in the directory
delete_speaker_done_keeps_artifact(id) ==
    /\ pc = "idle"
    /\ id \in DOMAIN voiceprints
    /\ voiceprints' = Remove(voiceprints, id)
    /\ keys' = KeysRemove(keys, id)
    /\ pc' = "returned"
    /\ last' = Outcome("delete", id, "true", "none", 0, 0, Store, deleted = id)
    /\ UNCHANGED <<files, now, cur, deleted, held, tmpdir, request>>

\* the artifact, if there is one, is unlinked and the entry removed: True
delete_speaker_done(id) ==
    /\ pc = "idle"
    /\ id \in DOMAIN voiceprints
    /\ files' = IF id \in DOMAIN files THEN Remove(files, id) ELSE files
    /\ voiceprints' = Remove(voiceprints, id)
    /\ keys' = KeysRemove(keys, id)
    /\ pc' = "returned"
    /\ last' = Outcome("delete", id, "true", "none", 0, 0, Store, deleted = id)
    /\ UNCHANGED <<now, cur, deleted,
                 held, tmpdir, request>>

delete_speaker(id) ==
    \/ delete_speaker_absent(id)
    \/ delete_speaker_unlink_fails(id)
    \/ delete_speaker_done(id)

\* the DELETE /api/speaker/{speaker_id} handler: the status of the response
\* for what delete_speaker returned
delete_endpoint(success) == IF success = "true" THEN "200" ELSE "404"

----------------------------------------------------------------------------
(* recognize_speaker(audio_path, top_k) *)

\* recognize_speaker_empty with a fault: the audio is embedded before the
\* store is looked at
recognize_speaker_empty_extracts_first(sample, top_k) ==
    /\ pc = "idle"
    /\ voiceprints = EmptyMap
    /\ pc' = "returned"
    /\ last' = IF ExtractOk(sample)
               THEN Recognized("ok", "none", sample, top_k, <<>>, Store)
               ELSE Recognized("error", "extract", sample, top_k, <<>>, Store)
    /\ UNCHANGED <<voiceprints, keys, files, now, cur, deleted,
                 held, tmpdir, request>>

\* not self.voiceprints: return [] before the audio is looked at
recognize_speaker_empty(sample, top_k) ==
    /\ pc = "idle"
    /\ voiceprints = EmptyMap
    /\ pc' = "returned"
    /\ last' = Recognized("ok", "none", sample, top_k, <<>>, Store)
    /\ UNCHANGED <<voiceprints, keys, files, now, cur, deleted,
                 held, tmpdir, request>>

\* extract_embedding raises: the call raises ValueError
recognize_speaker_extract_fails(sample, top_k) ==
    /\ pc = "idle"
    /\ voiceprints # EmptyMap
    /\ ~ExtractOk(sample)
    /\ pc' = "returned"
    /\ last' = Recognized("error", "extract", sample, top_k, <<>>, Store)
    /\ UNCHANGED <<voiceprints, keys, files, now, cur, deleted,
                 held, tmpdir, request>>

\* the embedding of the audio is extracted
recognize_speaker_extract(sample, top_k) ==
    /\ pc = "idle"
    /\ voiceprints # EmptyMap
    /\ ExtractOk(sample)
    /\ pc' = "recognizing"
    /\ cur' = [op |-> "recognize", audio |-> sample,
               query_embedding |-> extract_embedding(sample),
               top_k |-> top_k, before |-> Store]
    /\ UNCHANGED <<voiceprints, keys, files, now, last, deleted,
                 held, tmpdir, request>>

\* the loop over the dict, the sort and the slice
recognize_speaker_rank ==
    /\ pc = "recognizing"
    /\ pc' = "returned"
    /\ last' = Recognized("ok", "none", cur.audio, cur.top_k,
                          Slice(SortDesc(Matches(cur.query_embedding, keys,
                                                 voiceprints)),
                                cur.top_k),
                          cur.before)
    /\ cur' = NoCur
    /\ UNCHANGED <<voiceprints, keys, files, now, deleted,
                 held, tmpdir, request>>

recognize_speaker(sample, top_k) ==
    \/ recognize_speaker_empty(sample, top_k)
    \/ recognize_speaker_extract_fails(sample, top_k)
    \/ recognize_speaker_extract(sample, top_k)

----------------------------------------------------------------------------
(* SpeakerModel.__init__ on the same directory *)

\* list_speakers()

\* the dict list_speakers builds for one item of the map
Summary(speaker_id, voiceprint) ==
    [speaker_id |-> speaker_id, name |-> voiceprint.name,
     sample_count |-> voiceprint.sample_count]

\* What a completed list_speakers hands to its caller: the list, and whether
\* its entries are the dicts of the map themselves (shared) or new dicts.
Listed(speakers, shared, before) ==
    [op |-> "list", ret |-> "ok", speakers |-> speakers, shared |-> shared,
     before |-> before]

\* list_speakers with a fault: the last item of the map is left out
list_speakers_skips_last ==
    /\ pc = "idle"
    /\ pc' = "returned"
    /\ last' = Listed([i \in 1..(Len(keys) - 1) |->
                          Summary(keys[i], voiceprints[keys[i]])],
                      FALSE, Store)
    /\ UNCHANGED <<voiceprints, keys, files, now, cur, deleted,
                 held, tmpdir, request>>

\* list_speakers with a fault: it returns list(self.voiceprints.values()),
\* the dicts of the map themselves
list_speakers_returns_records ==
    /\ pc = "idle"
    /\ pc' = "returned"
    /\ last' = Listed([i \in 1..Len(keys) |-> voiceprints[keys[i]]],
                      TRUE, Store)
    /\ UNCHANGED <<voiceprints, keys, files, now, cur, deleted,
                 held, tmpdir, request>>

\* one new dict per item of the map, in the order of the map
list_speakers ==
    /\ pc = "idle"
    /\ pc' = "returned"
    /\ last' = Listed([i \in 1..Len(keys) |->
                          Summary(keys[i], voiceprints[keys[i]])],
                      FALSE, Store)
    /\ UNCHANGED <<voiceprints, keys, files, now, cur, deleted,
                 held, tmpdir, request>>

----------------------------------------------------------------------------
\* The process ends (between two calls, or inside _save_voiceprint) and a
\* new SpeakerModel loads the directory, in some glob order.
restart(order) ==
    /\ pc \in {"idle", "writing"}
    /\ order \in GlobOrders(files)
    /\ voiceprints' = load_voiceprints(order, files)
    /\ keys' = load_keys(order, files)
    /\ pc' = "returned"
    /\ cur' = NoCur
    /\ last' = Outcome("load", 0, "ok", "none", 0, 0, Store, FALSE)
    /\ UNCHANGED <<files, now, deleted,
                 held, tmpdir, request>>

\* Another SpeakerModel on the same directory (uvicorn runs
\* settings.WORKERS processes) deletes a speaker: its unlink removes the
\* artifact, this process's map keeps the entry.
other_process_unlink(id) ==
    /\ pc = "idle"
    /\ id \in DOMAIN files
    /\ files' = Remove(files, id)
    /\ UNCHANGED <<voiceprints, now, pc, cur, last, deleted, keys,
                 held, tmpdir, request>>

----------------------------------------------------------------------------
(* Specifications *)

SampleLists == UNION {[1..n -> Samples] : n \in 1..MaxSamples}

\* the sample lists of the recognition runs: audio of two of the voices
BatchVoices == {<<1, 1, 0>>, <<-1, 0, 1>>}
VoiceLists == UNION {[1..n -> {Bad} \cup BatchVoices] : n \in 1..MaxSamples}

\* the speaker ids of the recognition runs
VoiceIds == {generate_speaker_id(n, 0) : n \in Names}

\* The store runs register one name, so that speaker ids differ by the
\* clock; the recognition runs register the two names at one clock value.
StoreNames == {"alice"}

\* the calls on one SpeakerModel
Calls ==
    \/ Tick
    \/ Deliver
    \/ \E name \in StoreNames, sample \in Samples : register_speaker(name, sample)
    \/ \E name \in StoreNames, samples \in SampleLists :
          register_speaker_batch(name, samples)
    \/ save_voiceprint_done
    \/ save_voiceprint_raises
    \/ \E id \in SpeakerIds : delete_speaker(id)
    \/ \E sample \in Samples, top_k \in TopKs : recognize_speaker(sample, top_k)
    \/ recognize_speaker_rank
    \/ list_speakers

\* the calls on one SpeakerModel whose clock stands still, with the audio of
\* several voices
CallsVoices ==
    \/ Deliver
    \/ \E name \in Names, sample \in VoiceSamples : register_speaker(name, sample)
    \/ \E name \in Names, samples \in VoiceLists :
          register_speaker_batch(name, samples)
    \/ save_voiceprint_done
    \/ save_voiceprint_raises
    \/ \E id \in VoiceIds : delete_speaker(id)
    \/ \E sample \in VoiceSamples, top_k \in TopKs :
          recognize_speaker(sample, top_k)
    \/ recognize_speaker_rank

Next ==
    \/ Calls
    \/ \E order \in GlobOrders(files) : restart(order)

NextShared ==
    \/ Next
    \/ \E id \in SpeakerIds : other_process_unlink(id)

\* one SpeakerModel that is never restarted
SpecCalls == Init /\ [][Calls]_vars

\* one SpeakerModel at a time on the directory, restarts included
Spec == Init /\ [][Next]_vars

\* the directory is shared with another process
SpecShared == Init /\ [][NextShared]_vars

\* one SpeakerModel that enrolls and recognizes several voices
SpecVoices == Init /\ [][CallsVoices]_vars

----------------------------------------------------------------------------
(* Properties *)

Returned(ops) == pc = "returned" /\ last.op \in ops

Registrations == {"register", "register_batch"}

\* the artifact of id in the directory fs can be read back as a record
Readable(fs, id) == id \in DOMAIN fs /\ ~Unreadable(fs[id])

\* C1: whenever no call is in progress, a speaker_id is a key of the map if
\* and only if its artifact exists in the directory (lock-step).
C1_LockStep ==
    pc \in {"idle", "returned"} => DOMAIN voiceprints = DOMAIN files

\* C2: a registration that fails, for whatever reason, leaves the map and the
\* directory exactly as they were when it started.
C2_FailedRegistrationKeepsStore ==
    (Returned(Registrations) /\ last.ret = "error") => Store = last.before

\* C3: a registration in which _save_voiceprint raises (at the open or during
\* the write) leaves the map as it was and raises instead of returning a
\* result.
C3_PersistFailureKeepsMap ==
    (Returned(Registrations) /\ last.fault \in {"open", "write"})
        => voiceprints = last.before.voiceprints /\ last.ret = "error"

C3_Witness ==
    /\ Returned(Registrations)
    /\ last.fault = "write"
    /\ last.before.voiceprints # EmptyMap

\* C4: while _save_voiceprint is writing, the artifact of the speaker_id is
\* either absent or the complete record (never a partial artifact).
C4_AtomicWrite ==
    pc = "writing" => (cur.id \notin DOMAIN files \/ files[cur.id] = cur.voiceprint)

\* C5: after a load, every readable artifact of the directory is in the map
\* under its speaker_id, whatever the order of iteration (a bad artifact
\* costs only itself).
C5_LoadSkipsOnlyBadArtifact ==
    Returned({"load"}) =>
        \A f \in DOMAIN files :
            Readable(files, f) =>
                /\ files[f].speaker_id \in DOMAIN voiceprints
                /\ voiceprints[files[f].speaker_id] = files[f]

\* the one record register_speaker_batch stores on success: under the
\* returned id, with the number of embedded samples, every other key as before
BatchStored ==
    /\ last.id \in DOMAIN voiceprints
    /\ voiceprints[last.id].sample_count = last.nok
    /\ Len(voiceprints[last.id].embeddings_all) = last.nok
    /\ (DOMAIN voiceprints) \ {last.id} = (DOMAIN last.before.voiceprints) \ {last.id}
    /\ \A j \in (DOMAIN voiceprints) \ {last.id} :
           voiceprints[j] = last.before.voiceprints[j]

\* C6 as stated: register_speaker_batch succeeds if and only if at least one
\* sample is embedded; on success one record with sample_count = number of
\* embedded samples is stored; with no embedded sample it raises.
C6_BatchSucceedsIffSomeSample ==
    Returned({"register_batch"}) =>
        /\ last.ret = "ok" <=> last.nok >= 1
        /\ last.ret = "ok" => BatchStored
        /\ last.nok = 0 => last.ret = "error"

\* C6 amended: register_speaker_batch succeeds if and only if at least one
\* sample is embedded and _save_voiceprint does not raise; on success one
\* record with sample_count = number of embedded samples is stored; with no
\* embedded sample it raises.
C6_BatchSucceedsIffSomeSampleAndSaved ==
    Returned({"register_batch"}) =>
        /\ last.ret = "ok" <=> (last.nok >= 1 /\ last.fault \notin {"open", "write"})
        /\ last.ret = "ok" => BatchStored
        /\ last.nok = 0 => last.ret = "error"

\* a batch with a failing sample and an embedded one has succeeded
C6_Witness ==
    /\ Returned({"register_batch"})
    /\ last.ret = "ok"
    /\ 1 <= last.nok /\ last.nok < last.total

\* C7: a successful registration returns an id that was not in the store (no
\* map entry, no readable artifact), and the map grows by exactly one record.
C7_FreshSpeakerId ==
    (Returned(Registrations) /\ last.ret = "ok") =>
        /\ last.id \notin DOMAIN last.before.voiceprints
        /\ ~Readable(last.before.files, last.id)
        /\ Cardinality(DOMAIN voiceprints)
               = Cardinality(DOMAIN last.before.voiceprints) + 1

\* C8: delete_speaker of an id that is not in the map returns False and
\* leaves the map and the directory as they were.
C8_DeleteUnknown ==
    (Returned({"delete"}) /\ last.id \notin DOMAIN last.before.voiceprints)
        => last.ret = "false" /\ Store = last.before

\* an unknown id is deleted while the store holds a speaker and the
\* directory an artifact of the unknown id
C8_Witness ==
    /\ Returned({"delete"})
    /\ last.id \notin DOMAIN last.before.voiceprints
    /\ last.before.voiceprints # EmptyMap
    /\ last.id \in DOMAIN last.before.files

C10_SelfHealingDelete ==
    (Returned({"delete"})
        /\ last.id \in DOMAIN last.before.voiceprints
        /\ last.id \notin DOMAIN last.before.files)
        => (last.ret = "true" /\ last.id \notin DOMAIN voiceprints)

C10_Witness ==
    /\ Returned({"delete"})
    /\ last.id \in DOMAIN last.before.voiceprints
    /\ last.id \notin DOMAIN last.before.files
    /\ last.ret = "true"


\* C11: when delete_speaker returns, either it returned True and both the
\* map entry and the artifact of the id are gone, or it returned False and
\* the map and the directory are as they were; also when the unlink raises.
C11_DeleteAllOrNothing ==
    Returned({"delete"}) =>
        \/ /\ last.ret = "true"
           /\ last.id \notin DOMAIN voiceprints
           /\ last.id \notin DOMAIN files
        \/ /\ last.ret = "false"
           /\ Store = last.before

\* the unlink has raised for a speaker that is in the store
C11_Witness ==
    /\ Returned({"delete"})
    /\ last.fault = "unlink"
    /\ last.id \in DOMAIN voiceprints
    /\ last.id \in DOMAIN files

\* C12: a delete_speaker in which the unlink raises is not reported as an
\* unknown id is: neither False from the model nor 404 from the handler.
C12_UnlinkFailureDistinguishable ==
    (Returned({"delete"}) /\ last.fault = "unlink")
        => (last.ret # "false" /\ delete_endpoint(last.ret) # "404")

\* a registration or a deletion starts to change the store
StartsMutation ==
    \/ \E name \in StoreNames, sample \in Samples :
          register_speaker_open(name, sample)
    \/ \E name \in StoreNames, samples \in SampleLists :
          register_speaker_batch_open(name, samples)
    \/ \E id \in SpeakerIds : delete_speaker_done(id)

\* a list_speakers or recognize_speaker can start
ReaderCanRun == pc = "idle"

\* C13: while a registration is between its artifact write and its map
\* insert no other registration or deletion starts (so mutations of one
\* speaker_id take effect one after the other), and whenever a reader can
\* run, every record of the map has an artifact that holds the same record.
C13_MutationsLinearized ==
    /\ pc = "writing" => ~ENABLED StartsMutation
    /\ ReaderCanRun =>
           \A id \in DOMAIN voiceprints :
               id \in DOMAIN files /\ files[id] = voiceprints[id]

\* the speaker ids of a list of matches
MatchIds(ms) == {ms[i].speaker_id : i \in DOMAIN ms}

\* C14: a recognition ranks the store as it is at one point of the call
\* (the store does not change during the call and the ranked speakers are
\* in it), and while a recognition is in progress a registration or a
\* deletion can start (the recognition does not block it).
C14_RecognitionSnapshotNonBlocking ==
    /\ (Returned({"recognize"}) /\ last.ret = "ok") =>
           /\ Store = last.before
           /\ MatchIds(last.matches) \subseteq DOMAIN voiceprints
    /\ pc = "recognizing" => ENABLED StartsMutation

\* C15: recognize_speaker on an empty store returns the empty list and
\* raises nothing, whatever the audio and however the store became empty.
C15_EmptyStoreRecognition ==
    (Returned({"recognize"}) /\ last.before.voiceprints = EmptyMap)
        => (last.ret = "ok" /\ last.matches = <<>>)

\* audio that cannot be embedded is recognized on a store that the
\* deletion just before has emptied
C15_Witness ==
    /\ Returned({"recognize"})
    /\ last.before.voiceprints = EmptyMap
    /\ ~ExtractOk(last.audio)
    /\ deleted # 0

\* the similarity of the stored speaker id to the audio of the last call
SimilarityOf(id) ==
    calculate_similarity(extract_embedding(last.audio), voiceprints[id].embedding)

Ranked == Returned({"recognize"}) /\ last.ret = "ok" /\ last.before.voiceprints # EmptyMap

\* C16: with a positive top_k a successful recognition returns
\* min(top_k, number of stored speakers) results, each for another stored
\* speaker_id, in non-increasing similarity, and no speaker left out has a
\* greater similarity than a returned one.
C16_TopKRanking ==
    (Ranked /\ last.top_k > 0) =>
        LET ms == last.matches
            n == Cardinality(DOMAIN voiceprints)
        IN  /\ Len(ms) = IF last.top_k < n THEN last.top_k ELSE n
            /\ MatchIds(ms) \subseteq DOMAIN voiceprints
            /\ Cardinality(MatchIds(ms)) = Len(ms)
            /\ \A i \in DOMAIN ms :
                   ms[i].similarity = SimilarityOf(ms[i].speaker_id)
            /\ \A i, j \in DOMAIN ms :
                   i < j => Geq(ms[i].similarity, ms[j].similarity)
            /\ \A id \in (DOMAIN voiceprints) \ MatchIds(ms) :
                   \A i \in DOMAIN ms : Geq(ms[i].similarity, SimilarityOf(id))

\* top_k = 1 on two speakers has returned the one that is second in the
\* dict, the first being less similar
C16_Witness ==
    /\ Ranked
    /\ last.top_k = 1
    /\ Len(keys) = 2
    /\ Len(last.matches) = 1
    /\ last.matches[1].speaker_id = keys[2]
    /\ ~Geq(SimilarityOf(keys[1]), SimilarityOf(keys[2]))

\* C17: in every returned result is_match is true if and only if the
\* similarity of the result is at least the threshold (equal counts).
C17_IsMatchIffThreshold ==
    Ranked =>
        \A i \in DOMAIN last.matches :
            last.matches[i].is_match
                <=> Geq(last.matches[i].similarity, SIMILARITY_THRESHOLD)

\* a result at the threshold and a result below it have been returned
C17_Witness ==
    /\ Ranked
    /\ \E i, j \in DOMAIN last.matches :
           /\ last.matches[i].similarity = SIMILARITY_THRESHOLD
           /\ last.matches[i].is_match
           /\ ~last.matches[j].is_match

\* C18: when the audio embeds to the stored embedding of a speaker and every
\* other stored speaker has another embedding, a recognition with a positive
\* top_k returns that speaker first, with is_match true.
C18_SelfRecognition ==
    (Ranked /\ last.top_k > 0) =>
        \A id \in DOMAIN voiceprints :
            ( /\ voiceprints[id].embedding = extract_embedding(last.audio)
              /\ \A o \in (DOMAIN voiceprints) \ {id} :
                     voiceprints[o].embedding # voiceprints[id].embedding )
            => ( /\ last.matches[1].speaker_id = id
                 /\ last.matches[1].is_match )

\* C19: every record of the map has a non-empty embeddings_all and a
\* sample_count that is its length.
C19_SampleCount ==
    \A id \in DOMAIN voiceprints :
        /\ Len(voiceprints[id].embeddings_all) >= 1
        /\ voiceprints[id].sample_count = Len(voiceprints[id].embeddings_all)

\* a load has read a record of two samples next to a record of one
C19_Witness ==
    /\ Returned({"load"})
    /\ \E i, j \in DOMAIN voiceprints :
           /\ voiceprints[i].sample_count = 1
           /\ voiceprints[j].sample_count = 2

\* C20: the embedding of every record of the map is the L2-normalized mean
\* of its embeddings_all, and so has norm 1.
C20_RepresentativeIsNormalizedMean ==
    \A id \in DOMAIN voiceprints :
        /\ voiceprints[id].embedding
               = Normalize(Mean(voiceprints[id].embeddings_all))
        /\ Norm2(voiceprints[id].embedding) = <<1, 1>>

\* C21: a load gives back the map as it was: every record that a successful
\* registration stored and no deletion removed is in the loaded map under
\* its speaker_id, equal in every field, and the loaded map has no other id.
C21_RoundTrip ==
    Returned({"load"}) => voiceprints = last.before.voiceprints


----------------------------------------------------------------------------
(* Diarization (SpeakerModel.diarization)                                   *)
(*                                                                          *)
(* The segment bounds are Python floats.  A float is modelled as a binary   *)
(* floating-point number with a significand of MantissaBits bits, written   *)
(* as an integer count of the smallest spacing (a quarter of a second);     *)
(* every operation yields the float nearest to the exact result, ties to    *)
(* the even significand, as IEEE 754 arithmetic does.                       *)

MantissaBits == 4   \* bits of the significand of a float

\* the exponent of the float nearest to num / den
RECURSIVE ExponentFrom(_, _, _)
ExponentFrom(num, den, e) ==
    IF num < (2 ^ (MantissaBits + e)) * den THEN e
    ELSE ExponentFrom(num, den, e + 1)

\* the float nearest to the exact quotient num / den (num >= 0, den > 0)
FlRound(num, den) ==
    LET e == ExponentFrom(num, den, 0)
        q == (2 ^ e) * den
        m == num \div q
        r == num % q
    IN  IF 2 * r > q \/ (2 * r = q /\ m % 2 = 1) THEN (m + 1) * (2 ^ e)
        ELSE m * (2 ^ e)

\* x / n and i * x in float arithmetic, n and i integers
FlDiv(x, n) == FlRound(x, n)
FlMul(i, x) == FlRound(i * x, 1)

\* A recording is described by what load_audio does with it: it raises, or
\* it yields samples whose len(audio) / sr is the float duration.
Durations == {4 * d : d \in (2 ^ (MantissaBits - 1))..(2 ^ MantissaBits - 1)}
Recordings ==
    {[loadable |-> FALSE, duration |-> 0]}
        \cup {[loadable |-> TRUE, duration |-> d] : d \in Durations}

\* The argument num_speakers: <<>> is None, <<n>> the integer n.
NumSpeakerArgs == {<<>>, <<0>>, <<1>>, <<3>>, <<-1>>}

\* num_speakers or 2
OrTwo(num_speakers) ==
    IF num_speakers = <<>> THEN 2
    ELSE IF num_speakers[1] = 0 THEN 2 ELSE num_speakers[1]

\* 0.85 + np.random.rand() * 0.15, in hundredths: some value of [0.85, 1)
Confidences == {85, 99}

\* the list diarization builds; confidence[i] is the value drawn for the
\* i-th segment
Segments(duration, num_speakers, confidence) ==
    LET n == OrTwo(num_speakers)
        segment_duration == FlDiv(duration, n)
    IN  IF n < 1 THEN <<>>
        ELSE [i \in 1..n |->
                [start_time |-> FlMul(i - 1, segment_duration),
                 end_time |-> FlMul(i, segment_duration),
                 speaker_id |-> <<"speaker", i>>,
                 confidence |-> confidence[i]]]

\* What a completed diarization hands to its caller: the list of segments
\* (ret "ok") or a ValueError (ret "error").
Diarized(ret, fault, recording, num_speakers, segments, before) ==
    [op |-> "diarization", ret |-> ret, fault |-> fault,
     recording |-> recording, num_speakers |-> num_speakers,
     segments |-> segments, before |-> before]

\* load_audio raises: diarization raises ValueError
diarization_load_fails(recording, num_speakers) ==
    /\ pc = "idle"
    /\ ~recording.loadable
    /\ pc' = "returned"
    /\ last' = Diarized("error", "load", recording, num_speakers, <<>>, Store)
    /\ UNCHANGED <<voiceprints, keys, files, now, cur, deleted,
                 held, tmpdir, request>>

\* diarization with a fault: with no count given it makes one segment per
\* enrolled speaker
diarization_done_per_enrolled(recording, num_speakers) ==
    /\ pc = "idle"
    /\ recording.loadable
    /\ \E confidence \in [1..3 -> Confidences] :
          last' = Diarized("ok", "none", recording, num_speakers,
                           Segments(recording.duration,
                                    IF num_speakers = <<>>
                                    THEN <<Cardinality(DOMAIN voiceprints)>>
                                    ELSE num_speakers,
                                    confidence),
                           Store)
    /\ pc' = "returned"
    /\ UNCHANGED <<voiceprints, keys, files, now, cur, deleted,
                 held, tmpdir, request>>

\* the audio is loaded: the recording is cut in equal parts
diarization_done(recording, num_speakers) ==
    /\ pc = "idle"
    /\ recording.loadable
    /\ \E confidence \in [1..3 -> Confidences] :
          last' = Diarized("ok", "none", recording, num_speakers,
                           Segments(recording.duration, num_speakers,
                                    confidence),
                           Store)
    /\ pc' = "returned"
    /\ UNCHANGED <<voiceprints, keys, files, now, cur, deleted,
                 held, tmpdir, request>>

diarization(recording, num_speakers) ==
    \/ diarization_load_fails(recording, num_speakers)
    \/ diarization_done(recording, num_speakers)

\* the calls on one SpeakerModel that enrolls speakers and cuts recordings
CallsDiarization ==
    \/ Deliver
    \/ \E name \in StoreNames, sample \in Samples : register_speaker(name, sample)
    \/ save_voiceprint_done
    \/ save_voiceprint_raises
    \/ \E id \in SpeakerIds : delete_speaker(id)
    \/ \E recording \in Recordings, num_speakers \in NumSpeakerArgs :
          diarization(recording, num_speakers)

SpecDiarization == Init /\ [][CallsDiarization]_vars

\* the segments without the confidence drawn for them
Bounds(segments) ==
    [i \in DOMAIN segments |->
        <<segments[i].start_time, segments[i].end_time, segments[i].speaker_id>>]

\* a count was given and is positive, or none was given
CountGiven == last.num_speakers = <<>> \/ last.num_speakers[1] >= 1

\* C22: the segments diarization returns for a recording of positive
\* duration are sorted, each has 0 <= start_time < end_time <= duration, the
\* first starts at 0, each next one starts where the previous one ends, and
\* the last one ends at the duration of the recording.
C22_SegmentsCoverRecording ==
    (Returned({"diarization"}) /\ last.ret = "ok" /\ CountGiven)
        => LET s == last.segments
               d == last.recording.duration
           IN  /\ Len(s) >= 1
               /\ s[1].start_time = 0
               /\ s[Len(s)].end_time = d
               /\ \A i \in 1..Len(s) :
                     /\ 0 <= s[i].start_time
                     /\ s[i].start_time < s[i].end_time
                     /\ s[i].end_time <= d
               /\ \A i \in 1..(Len(s) - 1) :
                     s[i + 1].start_time = s[i].end_time

\* C23: a diarization call, successful or failed, leaves the map and the
\* directory as they were, and the segment bounds and labels it returns are
\* those the same call gives on an empty store.
C23_DiarizationIndependentOfStore ==
    Returned({"diarization"})
        => /\ Store = last.before
           /\ last.ret = "ok"
                 => \E confidence \in [1..3 -> Confidences] :
                       Bounds(last.segments)
                           = Bounds(Segments(last.recording.duration,
                                             last.num_speakers, confidence))

C23_Witness ==
    /\ Returned({"diarization"})
    /\ last.ret = "ok"
    /\ last.num_speakers = <<>>
    /\ Len(last.segments) = 2
    /\ DOMAIN voiceprints # {}
    /\ DOMAIN files # {}


----------------------------------------------------------------------------
(* Listing, and the sequence register - list - recognize - delete *)

\* the speaker ids the map held when the call that just returned started: in
\* one process, those a registration returned and no deletion removed since
Enrolled == DOMAIN last.before.voiceprints

\* the speaker ids of a returned listing
ListedIds == {last.speakers[i].speaker_id : i \in DOMAIN last.speakers}

----------------------------------------------------------------------------
(* Mock mode: _init_model could not load the network and set self.model to  *)
(* None.  extract_embedding then loads and validates the audio as before    *)
(* and returns np.random.randn(192) divided by its norm.                    *)

\* the unit vectors the random draw can give
MockEmbeddings == {Normalize(extract_embedding(v)) : v \in Voices}

\* register_speaker, the embedding drawn at random
register_speaker_open_mock(name, sample, embedding) ==
    LET id == generate_speaker_id(name, now)
        voiceprint == SingleVoiceprint(id, name, embedding)
    IN  /\ pc = "idle"
        /\ ExtractOk(sample)
        /\ Room(id)
        /\ files' = OpenForWrite(files, id)
        /\ pc' = "writing"
        /\ cur' = [op |-> "register", id |-> id, voiceprint |-> voiceprint,
                   total |-> 1, nok |-> 1, before |-> Store]
        /\ UNCHANGED <<voiceprints, now, last, deleted, keys,
                     held, tmpdir, request>>

register_speaker_mock(name, sample) ==
    \/ register_speaker_extract_fails(name, sample)
    \/ register_speaker_open_fails(name, sample)
    \/ \E embedding \in MockEmbeddings :
          register_speaker_open_mock(name, sample, embedding)

\* register_speaker_batch, one embedding drawn at random for every sample
\* that load_audio and validate_audio_length accept
register_speaker_batch_open_mock(name, samples, embeddings) ==
    LET id == generate_speaker_id(name, now)
        voiceprint == BatchVoiceprint(id, name, embeddings)
    IN  /\ pc = "idle"
        /\ embeddings # <<>>
        /\ Len(embeddings) = CountExtracted(samples)
        /\ Room(id)
        /\ files' = OpenForWrite(files, id)
        /\ pc' = "writing"
        /\ cur' = [op |-> "register_batch", id |-> id, voiceprint |-> voiceprint,
                   total |-> Len(samples), nok |-> CountExtracted(samples),
                   before |-> Store]
        /\ UNCHANGED <<voiceprints, now, last, deleted, keys,
                     held, tmpdir, request>>

register_speaker_batch_mock(name, samples) ==
    \/ register_speaker_batch_no_sample(name, samples)
    \/ register_speaker_batch_open_fails(name, samples)
    \/ \E embeddings \in [1..CountExtracted(samples) -> MockEmbeddings] :
          register_speaker_batch_open_mock(name, samples, embeddings)

\* recognize_speaker, the query embedding drawn at random
recognize_speaker_extract_mock(sample, top_k, embedding) ==
    /\ pc = "idle"
    /\ voiceprints # EmptyMap
    /\ ExtractOk(sample)
    /\ pc' = "recognizing"
    /\ cur' = [op |-> "recognize", audio |-> sample,
               query_embedding |-> embedding,
               top_k |-> top_k, before |-> Store]
    /\ UNCHANGED <<voiceprints, keys, files, now, last, deleted,
                 held, tmpdir, request>>

recognize_speaker_mock(sample, top_k) ==
    \/ recognize_speaker_empty(sample, top_k)
    \/ recognize_speaker_extract_fails(sample, top_k)
    \/ \E embedding \in MockEmbeddings :
          recognize_speaker_extract_mock(sample, top_k, embedding)

\* the calls on one SpeakerModel whose model is None
CallsMock ==
    \/ Deliver
    \/ \E name \in Names, sample \in Samples : register_speaker_mock(name, sample)
    \/ \E name \in Names, samples \in SampleLists :
          register_speaker_batch_mock(name, samples)
    \/ save_voiceprint_done
    \/ save_voiceprint_raises
    \/ \E id \in VoiceIds : delete_speaker(id)
    \/ \E sample \in Samples, top_k \in TopKs :
          recognize_speaker_mock(sample, top_k)
    \/ recognize_speaker_rank

\* a SpeakerModel whose network failed to load, on an empty directory
SpecMock == Init /\ [][CallsMock]_vars

\* C25: with self.model None, no record is stored (every record would hold a
\* random embedding) and no recognition returns a list of matches computed
\* from a random query embedding: the calls fail instead.
C25_NoFabricatedEmbedding ==
    /\ voiceprints = EmptyMap
    /\ \A id \in DOMAIN files : Unreadable(files[id])
    /\ Returned(Registrations) => last.ret = "error"
    /\ ~Ranked


----------------------------------------------------------------------------
(* The aggregation of register_speaker_batch in float arithmetic            *)
(*                                                                          *)
(* np.mean(embeddings_array, axis=0) adds the rows one after the other and  *)
(* divides by their number, np.linalg.norm takes the square root of the sum *)
(* of the squares, each operation rounded to the float32 nearest to its     *)
(* exact result.  The floats are those of the diarization section, with     *)
(* FlUnits of the smallest spacing in 1.0.  The store above keeps exact     *)
(* vectors: what it is checked for does not depend on the rounding.         *)

FlUnits == 2 ^ MantissaBits

FlAdd(x, y) == FlRound(x + y, 1)
FlTimes(x, y) == FlRound(x * y, FlUnits)
FlQuot(x, y) == FlRound(x * FlUnits, y)

IsFloat(f) == FlRound(f, 1) = f

\* the float nearest to the square root of x
FlSqrt(x) ==
    LET v == x * FlUnits
        floats == {f \in 0..(x + FlUnits) : IsFloat(f)}
        lo == CHOOSE f \in floats :
                 /\ f * f <= v
                 /\ \A g \in floats : g > f => g * g > v
        hi == CHOOSE g \in floats :
                 /\ g > lo
                 /\ \A h \in floats : h > lo => h >= g
    IN  IF 4 * v > (lo + hi) * (lo + hi) THEN hi
        ELSE IF 4 * v < (lo + hi) * (lo + hi) THEN lo
        ELSE FlRound(lo + hi, 2)

\* component j of the rows i..Len(embs), added to acc in the order of the rows
RECURSIVE FlSumFrom(_, _, _, _)
FlSumFrom(embs, j, i, acc) ==
    IF i > Len(embs) THEN acc
    ELSE FlSumFrom(embs, j, i + 1, FlAdd(acc, embs[i][j]))

\* np.mean(np.array(embs), axis=0)
FlMean(embs) ==
    [j \in DOMAIN embs[1] |-> FlDiv(FlSumFrom(embs, j, 1, 0), Len(embs))]

\* np.linalg.norm(e)
RECURSIVE FlSquaresFrom(_, _, _)
FlSquaresFrom(e, j, acc) ==
    IF j > Len(e) THEN acc
    ELSE FlSquaresFrom(e, j + 1, FlAdd(acc, FlTimes(e[j], e[j])))

FlNorm(e) == FlSqrt(FlSquaresFrom(e, 1, 0))

\* aggregated_embedding / np.linalg.norm(aggregated_embedding)
FlNormalize(e) == [j \in DOMAIN e |-> FlQuot(e[j], FlNorm(e))]

\* the representative embedding of the embeddings of a batch
Aggregate(embs) == FlNormalize(FlMean(embs))

MaxAggregated == 3   \* number of samples of an aggregated batch

\* embeddings of two components, in units of the smallest spacing
FloatEmbeddings == {<<x, FlUnits>> : x \in {2, 4, 15, 18}}
FloatLists == [1..MaxAggregated -> FloatEmbeddings]

\* the orders a caller can pass the same samples in
Orders(n) == {p \in [1..n -> 1..n] : \A i, j \in 1..n : p[i] = p[j] => i = j}

\* register_speaker_batch has extracted the embeddings of its samples, in
\* the order of audio_paths
InitAggregate ==
    /\ voiceprints = EmptyMap
    /\ keys = <<>>
    /\ files = EmptyMap
    /\ now = 0
    /\ pc = "aggregating"
    /\ cur \in {[op |-> "register_batch", embeddings |-> embs] :
                   embs \in FloatLists}
    /\ last = NoCall
    /\ deleted = 0
    /\ held = NoList
    /\ tmpdir = {}
    /\ request = NoRequest

\* the aggregation, had the caller passed the samples in another order
aggregate(order) ==
    /\ pc = "aggregating"
    /\ pc' = "returned"
    /\ last' = [op |-> "aggregate", order |-> order,
                embeddings_all |-> [i \in DOMAIN order |->
                                       cur.embeddings[order[i]]],
                embedding |-> Aggregate([i \in DOMAIN order |->
                                            cur.embeddings[order[i]]])]
    /\ UNCHANGED <<voiceprints, keys, files, now, cur, deleted,
                 held, tmpdir, request>>

NextAggregate == \E order \in Orders(MaxAggregated) : aggregate(order)

SpecAggregate == InitAggregate /\ [][NextAggregate]_vars

\* C26: whatever the order the samples of a batch are passed in, the
\* representative embedding is the one of the order they were extracted in.
C26_AggregationOrderIndependent ==
    Returned({"aggregate"}) => last.embedding = Aggregate(cur.embeddings)


----------------------------------------------------------------------------
(* Ties of the ranking *)

\* the place of a speaker id in the iteration order of the map
KeyIndex(ks, id) == CHOOSE i \in DOMAIN ks : ks[i] = id

\* the ranking recognize_speaker computes for the audio on a store
Ranking(sample, ks, vps) == SortDesc(Matches(extract_embedding(sample), ks, vps))

\* of two returned speakers of equal similarity, the one that was inserted
\* into the map first comes first
TiesInInsertionOrder ==
    Ranked =>
        \A i, j \in DOMAIN last.matches :
            (/\ i < j
             /\ last.matches[i].similarity = last.matches[j].similarity)
                => KeyIndex(keys, last.matches[i].speaker_id)
                       < KeyIndex(keys, last.matches[j].speaker_id)

\* C27: ties are broken by the insertion order of the map, so that a store
\* of the same content ranks the same audio in the same order: a step that
\* leaves the content of the map as it was leaves every ranking as it was.
C27_TiesDeterministic ==
    [][/\ TiesInInsertionOrder'
       /\ (voiceprints' = voiceprints)
             => \A sample \in Samples \ {Bad} :
                   Ranking(sample, keys', voiceprints')
                       = Ranking(sample, keys, voiceprints)]_vars


----------------------------------------------------------------------------
(* The caller of list_speakers and the list it got *)

\* the caller keeps the list that list_speakers returned
caller_keeps ==
    /\ pc = "returned"
    /\ last.op = "list"
    /\ held' = [speakers |-> last.speakers, shared |-> last.shared]
    /\ UNCHANGED <<voiceprints, keys, files, now, pc, cur, last, deleted,
                 tmpdir, request>>

\* The caller changes the name in an entry of its list.  An entry that is a
\* dict of the map is changed in the map as well: it is one object.
caller_renames(i, name) ==
    /\ pc = "idle"
    /\ i \in DOMAIN held.speakers
    /\ held.speakers[i].name # name
    /\ held' = [held EXCEPT !.speakers[i].name = name]
    /\ voiceprints' =
          LET id == held.speakers[i].speaker_id
          IN  IF held.shared /\ id \in DOMAIN voiceprints
                  /\ voiceprints[id] = held.speakers[i]
              THEN [voiceprints EXCEPT ![id].name = name]
              ELSE voiceprints
    /\ UNCHANGED <<keys, files, now, pc, cur, last, deleted, tmpdir, request>>

\* the caller removes the last entry of its list
caller_pops ==
    /\ pc = "idle"
    /\ held.speakers # <<>>
    /\ held' = [held EXCEPT
                   !.speakers = SubSeq(held.speakers, 1, Len(held.speakers) - 1)]
    /\ UNCHANGED <<voiceprints, keys, files, now, pc, cur, last, deleted,
                 tmpdir, request>>

\* a name no speaker is registered with
OtherNames == {"mallory"}

\* the calls on one SpeakerModel whose caller lists the speakers
CallsList ==
    \/ Deliver
    \/ \E name \in Names, sample \in Samples : register_speaker(name, sample)
    \/ save_voiceprint_done
    \/ save_voiceprint_raises
    \/ \E id \in VoiceIds : delete_speaker(id)
    \/ list_speakers
    \/ caller_keeps
    \/ \E i \in 1..MaxSpeakers, name \in OtherNames : caller_renames(i, name)
    \/ caller_pops

SpecList == Init /\ [][CallsList]_vars

\* the list that has just been returned has one summary per speaker id of
\* the map, with the name and the sample count of its record and without
\* the embeddings
OneSummaryPerSpeaker ==
    Returned({"list"}) =>
        /\ Len(last.speakers) = Cardinality(DOMAIN voiceprints)
        /\ ListedIds = DOMAIN voiceprints
        /\ \A i \in DOMAIN last.speakers :
              LET entry == last.speakers[i]
              IN  /\ entry.name = voiceprints[entry.speaker_id].name
                  /\ entry.sample_count
                        = voiceprints[entry.speaker_id].sample_count
                  /\ "embedding" \notin DOMAIN entry
                  /\ "embeddings_all" \notin DOMAIN entry

\* C28: list_speakers returns one summary per speaker id of the map,
\* without embeddings, and the list is a snapshot: no step changes both the
\* list a caller holds and the map or the directory, so that a later
\* registration or deletion leaves the list as it is and a change made to
\* the list leaves the store as it is.
C28_ListIsSnapshot ==
    [][/\ OneSummaryPerSpeaker'
       /\ (held' # held)
             => (voiceprints' = voiceprints /\ keys' = keys /\ files' = files)
       /\ (voiceprints' # voiceprints \/ files' # files) => held' = held]_vars

\* the caller holds a list in which it renamed a speaker that the map still
\* has under its own name, and the map has got a speaker since
C28_Witness ==
    /\ \E i \in DOMAIN held.speakers :
          /\ held.speakers[i].name \in OtherNames
          /\ held.speakers[i].speaker_id \in DOMAIN voiceprints
          /\ voiceprints[held.speakers[i].speaker_id].name \in Names
    /\ Cardinality(DOMAIN voiceprints) > Len(held.speakers)


----------------------------------------------------------------------------
(* Deletion and later loads *)

\* C29: a speaker id whose delete_speaker returned True is in no map that a
\* later load builds, unless it is registered again.  Step by step: the
\* deletion leaves neither an entry nor an artifact of the id; an artifact
\* of an id appears in the directory only when a registration of that id
\* opens it; a load puts into the map only ids whose artifact is in the
\* directory; and the artifact a load reads for an id is <id>.json, the
\* file delete_speaker unlinks.
C29_DeletedStaysDeleted ==
    [][/\ (pc' = "returned" /\ last'.op = "delete" /\ last'.ret = "true")
             => (/\ last'.id \notin DOMAIN files'
                 /\ last'.id \notin DOMAIN voiceprints')
       /\ \A id \in SpeakerIds :
             (id \notin DOMAIN files /\ id \in DOMAIN files')
                => (pc' = "writing" /\ cur'.op \in Registrations /\ cur'.id = id)
       /\ (pc' = "returned" /\ last'.op = "load")
             => (/\ \A id \in DOMAIN voiceprints' : Readable(files', id)
                 /\ deleted' # 0 => deleted' \notin DOMAIN voiceprints')
       /\ \A id \in DOMAIN files' :
             Readable(files', id) => files'[id].speaker_id = id]_vars

\* a load right after a deletion that returned True: the map it builds has
\* the other speaker and not the deleted one
C29_Witness ==
    /\ Returned({"load"})
    /\ deleted # 0
    /\ deleted \notin DOMAIN voiceprints
    /\ voiceprints # EmptyMap


----------------------------------------------------------------------------
(* The register endpoint of app.py and its temporary files                  *)
(*                                                                          *)
(* The handler saves every uploaded file in a NamedTemporaryFile created    *)
(* with delete=False, calls register_speaker or register_speaker_batch on   *)
(* the saved files and removes, in a finally block, the files whose names   *)
(* it has put on its list temp_files.  Between the creation of a temporary  *)
(* file and the await of audio.read() other handlers can run.               *)

MaxTemps == 3   \* most temporary files the directory of tempfile holds

\* An uploaded file: the audio it carries, and whether audio.read() and
\* temp_file.write() succeed for it.
Uploads == [sample : Samples, readable : BOOLEAN]
UploadLists == UNION {[1..n -> Uploads] : n \in 0..MaxSamples}

\* the locals of the handler: the uploads not yet saved, the temporary file
\* of the upload being read (0: none), the list temp_files, and the HTTP
\* status once the handler has returned
Request(stage, name, pending, current, temp_files, status) ==
    [stage |-> stage, name |-> name, pending |-> pending,
     current |-> current, temp_files |-> temp_files, status |-> status]

\* the name NamedTemporaryFile picks: one that no file has
FreshTemp == CHOOSE t \in 1..MaxTemps : t \notin tmpdir

\* the files named in temp_files
Listed_temp_files ==
    {request.temp_files[i].file : i \in DOMAIN request.temp_files}

\* the recordings saved in the files of temp_files
SavedSamples == [i \in DOMAIN request.temp_files |-> request.temp_files[i].sample]

\* a request with no file, or more than ten: HTTP 400 before any file is made
register_endpoint_rejects(name, audio_files) ==
    /\ pc = "idle"
    /\ request.stage \in {"none", "done"}
    /\ Len(audio_files) < 1 \/ Len(audio_files) > 10
    /\ request' = Request("done", name, <<>>, 0, <<>>, "400")
    /\ UNCHANGED <<voiceprints, keys, files, now, pc, cur, last, deleted, held,
                 tmpdir>>

\* a request with one to ten files: temp_files = []
register_endpoint_accepts(name, audio_files) ==
    /\ pc = "idle"
    /\ request.stage \in {"none", "done"}
    /\ Len(audio_files) >= 1
    /\ Len(audio_files) <= 10
    /\ Cardinality(tmpdir) + Len(audio_files) <= MaxTemps
    /\ request' = Request("saving", name, audio_files, 0, <<>>, "none")
    /\ UNCHANGED <<voiceprints, keys, files, now, pc, cur, last, deleted, held,
                 tmpdir>>

\* NamedTemporaryFile(delete=False) creates the file of the next upload
temp_file_created ==
    /\ request.stage = "saving"
    /\ request.pending # <<>>
    /\ tmpdir' = tmpdir \cup {FreshTemp}
    /\ request' = [request EXCEPT !.stage = "reading", !.current = FreshTemp]
    /\ UNCHANGED <<voiceprints, keys, files, now, pc, cur, last, deleted, held>>

\* the upload is read and written: the name of its file is put on temp_files
upload_saved ==
    /\ request.stage = "reading"
    /\ Head(request.pending).readable
    /\ request' = [request EXCEPT
                      !.stage = "saving",
                      !.pending = Tail(request.pending),
                      !.current = 0,
                      !.temp_files =
                          Append(request.temp_files,
                                 [file |-> request.current,
                                  sample |-> Head(request.pending).sample])]
    /\ UNCHANGED <<voiceprints, keys, files, now, pc, cur, last, deleted, held,
                 tmpdir>>

\* audio.read() or temp_file.write() raises: the finally block removes the
\* files of temp_files and the handler answers HTTP 500
upload_raises ==
    /\ request.stage = "reading"
    /\ ~Head(request.pending).readable
    /\ tmpdir' = tmpdir \ Listed_temp_files
    /\ request' = [request EXCEPT !.stage = "done", !.status = "500"]
    /\ UNCHANGED <<voiceprints, keys, files, now, pc, cur, last, deleted, held>>

\* all uploads are saved: the handler calls the model
register_endpoint_calls ==
    /\ request.stage = "saving"
    /\ request.pending = <<>>
    /\ IF Len(request.temp_files) = 1
       THEN register_speaker(request.name, SavedSamples[1])
       ELSE register_speaker_batch(request.name, SavedSamples)

\* the call has returned or raised: the finally block removes the files of
\* temp_files, and the handler answers 200, or 400 for a ValueError
register_endpoint_returns ==
    /\ request.stage = "saving"
    /\ pc = "returned"
    /\ tmpdir' = tmpdir \ Listed_temp_files
    /\ request' = [request EXCEPT
                      !.stage = "done",
                      !.status = IF last.ret = "ok" THEN "200" ELSE "400"]
    /\ pc' = "idle"
    /\ last' = NoCall
    /\ deleted' = 0
    /\ UNCHANGED <<voiceprints, keys, files, now, cur, held>>

\* the register requests one service handles, one after the other
CallsUpload ==
    \/ \E name \in StoreNames, audio_files \in UploadLists :
          \/ register_endpoint_rejects(name, audio_files)
          \/ register_endpoint_accepts(name, audio_files)
    \/ temp_file_created
    \/ upload_saved
    \/ upload_raises
    \/ register_endpoint_calls
    \/ save_voiceprint_done
    \/ save_voiceprint_raises
    \/ register_endpoint_returns

SpecUpload == Init /\ [][CallsUpload]_vars

\* C30: when the register handler has returned, by whatever path, no
\* temporary file that it created is left.
C30_NoTempFileLeft ==
    request.stage \in {"none", "done"} => tmpdir = {}

============================================================================
